---- MODULE Spec2Model ----
(***************************************************************************)
(* Windowed streaming-dataflow orchestration of snailtrail's PAG           *)
(* construction (backup_pag-construction/src/dataflow.rs): the             *)
(* epoch-bounded input feeder (feed_input), the watermark trackers         *)
(* (ProbeWrapper) and the keyed windowed stages wired by build_dataflow.   *)
(*                                                                         *)
(* Durations (timestamps, epochs, probe frontiers) are natural numbers of  *)
(* nanoseconds; Duration::new(0,1) is 1.                                   *)
(***************************************************************************)
EXTENDS Integers, Sequences, FiniteSets, Bags, TLC

\* ------------------------------------------------------------------ bounds
\* longest input trace fed to feed_input
MaxLen == 2
\* largest record timestamp
MaxTs == 5
\* largest window width (config.window_size_ns)
MaxWindowSize == 2
\* largest lag tolerance (config.epochs)
MaxLag == 2

VARIABLES
    \* ---- arguments of feed_input / Config
    input_records,   \* Vec<LogRecord>, each record reduced to its timestamp
    window_size_ns,  \* Config.window_size_ns
    epochs,          \* Config.epochs, the lag tolerance
    probes,          \* names of the ProbeWrappers, in the order of build_dataflow
    \* ---- locals of feed_input
    pc,              \* position of the feeder
    idx,             \* index of the record the for loop is at
    first,
    old_epoch,
    node_count,
    advanced,        \* the record at idx made the feeder advance the input
    \* ---- InputHandle
    now_at,          \* input.time() / input.epoch()
    sent,            \* records given to input.send, with the time they were sent at
    \* ---- ProbeWrapper (one per entry of probes)
    current,         \* ProbeWrapper.current
    printed,         \* windows of the "EPOCH <name> <window>" lines, in order
    \* ---- the dataflow behind each probe
    pf,              \* frontier held by ProbeWrapper.probe
    proc,            \* number of sent records the probe's branch has fully processed
    \* ---- diagnostics of the feeder
    out_input,       \* windows of the "EPOCH input <window>" lines, in order
    out_count,       \* <<window, n>> of the "COUNT <window> 0 nodes <n>" lines
    \* ---- a ProbeWrapper driven by an arbitrary caller
    calls,           \* number of calls made to the wrapper's operations
    \* ---- the stages wired by build_dataflow, on every worker
    peers,           \* number of workers (partitions)
    up,              \* frontier of the streams forward, bc and sp
    chan,            \* bag of the messages in flight to the stateful operators
    pend,            \* times each operator instance asked to be notified at
    accums,          \* SeedEdge: accums, per worker
    bc_map,          \* count: bc_map, per worker
    forward_map,     \* count: forward_map, per worker
    aggregates,      \* aggregate: aggregates, per aggregation and worker
    emitted,         \* bag of the records each operator has given to its output
    submitted,       \* per operator, window and key: the contributions produced so far
    produced,        \* number of records the upstream streams have produced
    \* ---- the metrics (count) operators of build_dataflow
    verbose,         \* Config.verbose
    metrics,         \* their messages in flight, accumulators, notifications, output
    \* ---- a pure function of the module applied to drawn arguments
    fn_in,           \* the arguments
    fn_out           \* the results so far

feederVars == <<input_records, window_size_ns, epochs, probes, pc, idx, first,
                old_epoch, node_count, advanced, now_at, sent, current, printed,
                pf, proc, out_input, out_count>>

\* what feed_input does not touch
stageVars == <<peers, up, chan, pend, accums, bc_map, forward_map, aggregates,
               emitted, submitted, produced>>

auxVars == <<verbose, metrics, fn_in, fn_out>>

nonFeederVars == <<calls, stageVars, auxVars>>

vars == <<feederVars, nonFeederVars>>

\* ----------------------------------------------------------------- helpers
Min2(a, b) == IF a <= b THEN a ELSE b

RECURSIVE SeqsUpTo(_, _)
\* all sequences over S of length at most n
SeqsUpTo(S, n) ==
    IF n = 0 THEN {<<>>}
    ELSE LET shorter == SeqsUpTo(S, n - 1)
         IN  shorter \cup {Append(s, x) : s \in {t \in shorter : Len(t) = n - 1}, x \in S}

\* cur, cur+1, ..., f as a sequence (empty when f < cur)
Range(cur, f) == [i \in 1..(IF f >= cur THEN f - cur + 1 ELSE 0) |-> cur + i - 1]

\* a HashMap as a function on the set of its keys
Put(m, k, v) == [x \in (DOMAIN m) \cup {k} |-> IF x = k THEN v ELSE m[x]]
RemoveNothing(m, k) == m
Remove(m, k) == [x \in (DOMAIN m) \ {k} |-> m[x]]
Get(m, k, default) == IF k \in DOMAIN m THEN m[k] ELSE default
EmptyMap == <<>>

Min(S) == CHOOSE x \in S : \A y \in S : x <= y

\* -------------------------------------------------------- build_dataflow
\* the stateful operators of build_dataflow
Operators == {"SeedEdge", "count", "summary", "sp_summary"}
\* the streams that feed them
Streams == {"forward", "bc", "sp"}
\* the input ports of the operators, and the stream that feeds each
PortStream == [SeedEdge |-> "forward", count1 |-> "bc", count2 |-> "forward",
               summary |-> "bc", sp_summary |-> "sp"]
Ports == DOMAIN PortStream
OperatorPorts == [SeedEdge |-> {"SeedEdge"}, count |-> {"count1", "count2"},
                  summary |-> {"summary"}, sp_summary |-> {"sp_summary"}]

\* the dataflow as built: one worker's instances, nothing received yet
StagesIdle(n) ==
    /\ peers = n
    /\ up = [s \in Streams |-> 1]
    /\ chan = [q \in Ports |-> EmptyBag]
    /\ pend = [o \in Operators |-> [p \in 0..(n - 1) |-> {}]]
    /\ accums = [p \in 0..(n - 1) |-> EmptyMap]
    /\ bc_map = [p \in 0..(n - 1) |-> EmptyMap]
    /\ forward_map = [p \in 0..(n - 1) |-> EmptyMap]
    /\ aggregates = [o \in {"summary", "sp_summary"} |-> [p \in 0..(n - 1) |-> EmptyMap]]
    /\ emitted = [o \in Operators |-> EmptyBag]
    /\ submitted = [o \in Operators |-> EmptyMap]
    /\ produced = 0

\* the count operators as built, and no function applied
MetricsEmpty == [chan |-> EmptyBag, accums |-> EmptyMap, pend |-> {},
                 out |-> EmptyBag, given |-> EmptyMap]
AuxIdle ==
    /\ verbose = 0
    /\ metrics = MetricsEmpty
    /\ fn_in = <<>>
    /\ fn_out = <<>>

names == <<"pag", "bc", "sp", "summary", "sp_summary">>

\* a builder that never prunes the summary stages
build_dataflow_probes_unpruned(disable_bc, disable_summary) ==
    IF disable_bc THEN <<"probe_pag">>
    ELSE <<"probe_pag", "probe_bc", "probe_sp", "probe_summary", "probe_sp_summary">>

\* the probes build_dataflow returns
build_dataflow_probes(disable_bc, disable_summary) ==
    IF disable_bc THEN <<"probe_pag">>
    ELSE IF disable_summary THEN <<"probe_pag", "probe_bc">>
    ELSE <<"probe_pag", "probe_bc", "probe_sp", "probe_summary", "probe_sp_summary">>

\* run_dataflow: probes.into_iter().zip(names) wrapped by ProbeWrapper::new
probe_wrappers(disable_bc, disable_summary) ==
    LET ps == build_dataflow_probes(disable_bc, disable_summary)
    IN  [i \in 1..Min2(Len(ps), Len(names)) |-> names[i]]

\* ---------------------------------------------------------- ProbeWrapper
\* ProbeHandle::less_than on a totally ordered time: some frontier element < t
less_than(frontier, t) == frontier < t

\* ProbeWrapper::new: current: Duration::new(0,0)
new_current == 0

\* ProbeWrapper::set_current: the value of current after the call
set_current(cur, new_cur) == new_cur

\* a drain that takes the probe's frontier as the new pointer unconditionally
print_and_advance_to_frontier(cur, frontier) == frontier + 1

\* ProbeWrapper::print_and_advance: the value of current after the loop
print_and_advance(cur, frontier) ==
    IF less_than(frontier, cur) THEN cur ELSE frontier + 1

\* ProbeWrapper::print_and_advance: the windows it prints
print_and_advance_lines(cur, frontier) ==
    Range(cur, print_and_advance(cur, frontier) - 1)

\* ------------------------------------------------------------- feed_input
Probes == 1..Len(probes)
\* probes.pop(): the last wrapper
last_probe == Len(probes)

\* a feeder that rounds the window index up
EpochRoundedUp(ts, w) == (ts + w - 1) \div w

\* rec.timestamp / window_size_ns
Epoch(ts, w) == ts \div w

\* a feeder that moves the input whenever the window differs
NeedsAdvanceOnChange(t, epoch) == t # epoch

\* input.epoch() < &epoch
NeedsAdvance(t, epoch) == t < epoch

\* the time before which the branch of a probe has nothing left to do:
\* the time of its first unprocessed record, else the input's time
BranchFrontier(done, recs, t) ==
    IF done < Len(recs) THEN recs[done + 1].time ELSE t

\* for probe in &mut probes { probe.print_and_advance() }; last_probe.print_and_advance()
DrainAll ==
    /\ current' = [b \in Probes |-> print_and_advance(current[b], pf[b])]
    /\ printed' = [b \in Probes |->
                     printed[b] \o print_and_advance_lines(current[b], pf[b])]

\* computation.step(): every branch processes some of its outstanding records and
\* the probes see the frontier that results
Step ==
    \E np \in [Probes -> 0..Len(sent)] :
        /\ \A b \in Probes : np[b] >= proc[b]
        /\ proc' = np
        /\ pf' = [b \in Probes |-> BranchFrontier(np[b], sent, now_at)]

\* a guard that tolerates one more window of lag
BackpressureLagsOneMore(frontier, t, lag) == less_than(frontier, t - lag - 1)

\* the guard of the backpressure loop
BackpressureLags(frontier, t, lag) == less_than(frontier, t - lag)

Init ==
    /\ input_records \in SeqsUpTo(0..MaxTs, MaxLen)
    /\ window_size_ns \in 1..MaxWindowSize
    /\ epochs \in 0..MaxLag
    /\ \E disable_bc \in BOOLEAN, disable_summary \in BOOLEAN :
           probes = probe_wrappers(disable_bc, disable_summary)
    /\ pc = "for"
    /\ idx = 1
    /\ first = TRUE
    /\ old_epoch = 0
    /\ node_count = 0
    /\ advanced = FALSE
    /\ now_at = 0
    /\ sent = <<>>
    /\ current = [b \in Probes |-> new_current]
    /\ printed = [b \in Probes |-> <<>>]
    /\ pf = [b \in Probes |-> 0]
    /\ proc = [b \in Probes |-> 0]
    /\ out_input = <<>>
    /\ out_count = <<>>
    /\ calls = 0
    /\ StagesIdle(1)
    /\ AuxIdle

\* the head of the for loop body: the epoch of the record, the first-record
\* initialisation and the advance of the input
ForRecord ==
    /\ pc = "for"
    /\ idx <= Len(input_records)
    /\ LET epoch == Epoch(input_records[idx], window_size_ns)
           \* input.advance_to(epoch - Duration::new(0,1)) on the first record
           t1 == IF first THEN epoch - 1 ELSE now_at
       IN  IF first /\ epoch = 0
           THEN \* Duration subtraction underflows: panic
                /\ pc' = "aborted"
                /\ first' = FALSE
                /\ current' = [b \in Probes |-> set_current(current[b], epoch)]
                /\ old_epoch' = epoch
                /\ UNCHANGED <<now_at, out_input, advanced>>
           ELSE /\ first' = FALSE
                /\ current' = IF first
                              THEN [b \in Probes |-> set_current(current[b], epoch)]
                              ELSE current
                /\ old_epoch' = IF first THEN epoch ELSE old_epoch
                /\ IF NeedsAdvance(t1, epoch)
                   THEN /\ out_input' = Append(out_input, epoch)
                        /\ now_at' = epoch
                        /\ advanced' = TRUE
                        /\ pc' = "backpressure"
                   ELSE /\ now_at' = t1
                        /\ advanced' = FALSE
                        /\ pc' = "send"
                        /\ UNCHANGED out_input
    /\ UNCHANGED nonFeederVars
    /\ UNCHANGED <<input_records, window_size_ns, epochs, probes, idx,
                   node_count, sent, printed, pf, proc, out_count>>

\* *input.time() - epochs underflows: panic
BackpressureAbort ==
    /\ pc = "backpressure"
    /\ now_at < epochs
    /\ pc' = "aborted"
    /\ UNCHANGED nonFeederVars
    /\ UNCHANGED <<input_records, window_size_ns, epochs, probes, idx, first,
                   old_epoch, node_count, advanced, now_at, sent, current,
                   printed, pf, proc, out_input, out_count>>

\* one iteration of the backpressure loop
BackpressureIter ==
    /\ pc = "backpressure"
    /\ now_at >= epochs
    /\ BackpressureLags(pf[last_probe], now_at, epochs)
    /\ DrainAll
    /\ Step
    /\ UNCHANGED nonFeederVars
    /\ UNCHANGED <<input_records, window_size_ns, epochs, probes, pc, idx, first,
                   old_epoch, node_count, advanced, now_at, sent, out_input,
                   out_count>>

\* the backpressure loop exits
BackpressureExit ==
    /\ pc = "backpressure"
    /\ now_at >= epochs
    /\ ~BackpressureLags(pf[last_probe], now_at, epochs)
    /\ pc' = "send"
    /\ UNCHANGED nonFeederVars
    /\ UNCHANGED <<input_records, window_size_ns, epochs, probes, idx, first,
                   old_epoch, node_count, advanced, now_at, sent, current,
                   printed, pf, proc, out_input, out_count>>

\* the tail of the for loop body: the per-window count and input.send(rec)
SendRecord ==
    /\ pc = "send"
    /\ LET epoch == Epoch(input_records[idx], window_size_ns)
       IN  /\ IF epoch > old_epoch
              THEN /\ out_count' = Append(out_count, <<old_epoch, node_count>>)
                   /\ node_count' = 0 + 1
                   /\ old_epoch' = epoch
              ELSE /\ node_count' = node_count + 1
                   /\ UNCHANGED <<out_count, old_epoch>>
           /\ sent' = Append(sent, [time |-> now_at, ts |-> input_records[idx]])
    /\ idx' = idx + 1
    /\ pc' = "for"
    /\ UNCHANGED nonFeederVars
    /\ UNCHANGED <<input_records, window_size_ns, epochs, probes, first, advanced,
                   now_at, current, printed, pf, proc, out_input>>

\* the for loop is over
ForDone ==
    /\ pc = "for"
    /\ idx > Len(input_records)
    /\ pc' = "final"
    /\ UNCHANGED nonFeederVars
    /\ UNCHANGED <<input_records, window_size_ns, epochs, probes, idx, first,
                   old_epoch, node_count, advanced, now_at, sent, current,
                   printed, pf, proc, out_input, out_count>>

\* one iteration of the loop after the input is exhausted
FinalIter ==
    /\ pc = "final"
    /\ less_than(pf[last_probe], now_at)
    /\ DrainAll
    /\ Step
    /\ UNCHANGED nonFeederVars
    /\ UNCHANGED <<input_records, window_size_ns, epochs, probes, pc, idx, first,
                   old_epoch, node_count, advanced, now_at, sent, out_input,
                   out_count>>

\* the last drain and the final count; feed_input returns
FinalDrain ==
    /\ pc = "final"
    /\ ~less_than(pf[last_probe], now_at)
    /\ DrainAll
    /\ out_count' = Append(out_count, <<old_epoch, node_count>>)
    /\ pc' = "done"
    /\ UNCHANGED nonFeederVars
    /\ UNCHANGED <<input_records, window_size_ns, epochs, probes, idx, first,
                   old_epoch, node_count, advanced, now_at, sent, pf, proc,
                   out_input>>

Next ==
    \/ ForRecord
    \/ BackpressureAbort
    \/ BackpressureIter
    \/ BackpressureExit
    \/ SendRecord
    \/ ForDone
    \/ FinalIter
    \/ FinalDrain

Spec == Init /\ [][Next]_vars

\* ------------------------------------------- ProbeWrapper under any caller
\* most calls made to one wrapper
MaxCalls == 4

\* ProbeWrapper::new("pag", probe), no feeder running
InitTracker ==
    /\ input_records = <<>>
    /\ window_size_ns = 1
    /\ epochs = 0
    /\ probes = <<names[1]>>
    /\ pc = "caller"
    /\ idx = 1
    /\ first = TRUE
    /\ old_epoch = 0
    /\ node_count = 0
    /\ advanced = FALSE
    /\ now_at = 0
    /\ sent = <<>>
    /\ current = [b \in Probes |-> new_current]
    /\ printed = [b \in Probes |-> <<>>]
    /\ pf = [b \in Probes |-> 0]
    /\ proc = [b \in Probes |-> 0]
    /\ out_input = <<>>
    /\ out_count = <<>>
    /\ calls = 0
    /\ StagesIdle(1)
    /\ AuxIdle

trackerFrame ==
    UNCHANGED <<auxVars, stageVars, input_records, window_size_ns, epochs, probes, pc, idx, first,
                old_epoch, node_count, advanced, now_at, sent, proc, out_input,
                out_count>>

\* wrapper.set_current(t)
CallSetCurrent(t) ==
    /\ pc = "caller"
    /\ calls < MaxCalls
    /\ calls' = calls + 1
    /\ current' = [b \in Probes |-> set_current(current[b], t)]
    /\ UNCHANGED <<printed, pf>>
    /\ trackerFrame

\* wrapper.print_and_advance()
CallPrintAndAdvance ==
    /\ pc = "caller"
    /\ calls < MaxCalls
    /\ calls' = calls + 1
    /\ DrainAll
    /\ UNCHANGED pf
    /\ trackerFrame

\* the dataflow behind the probe makes progress between two calls
ProbeMoves ==
    /\ pc = "caller"
    /\ \E f \in 1..MaxTs :
           /\ f > pf[1]
           /\ pf' = [b \in Probes |-> f]
    /\ UNCHANGED <<current, printed, calls>>
    /\ trackerFrame

NextTracker ==
    \/ \E t \in 0..MaxTs : CallSetCurrent(t)
    \/ CallPrintAndAdvance
    \/ ProbeMoves

SpecTracker == InitTracker /\ [][NextTracker]_vars

\* ---------------------------------------------------- the stages' data
MaxWorkers == 2
MaxWin == 2
MaxEmit == 2
MaxScore == 2
\* bits of an f64's significand, scaled down: the integers up to 2^Precision
\* are exact, the next binade keeps the even ones, and so on
Precision == 2

Workers == 0..(peers - 1)
Windows == 1..MaxWin

\* f64: the spacing of the representable values around x
RECURSIVE Ulp(_)
Ulp(x) == IF x < 2^Precision THEN 1 ELSE 2 * Ulp(x \div 2)

\* f64: x rounded to the nearest representable value, ties to even
fl(x) ==
    LET u == Ulp(x)
        q == x \div u
        r == x % u
    IN  IF 2 * r < u \/ (2 * r = u /\ q % 2 = 0) THEN q * u ELSE (q + 1) * u

\* T::add for the two instances of Summary<T>
Add(T, a, b) == IF T = "f64" THEN fl(a + b) ELSE a + b

\* ImpreciseFrom<u64> for f64
ImpreciseFrom(w) == fl(w)

\* `count as u64` of a score
as_u64(x) == IF x < 0 THEN 0 ELSE x

\* Summary::default()
DefaultSummary == [bc |-> 0, weighted_bc |-> 0, weight |-> 0, count |-> 0]

add_assign_keeps_count(T, self, other) ==
    [bc          |-> Add(T, self.bc, other.bc),
     weighted_bc |-> Add(T, self.weighted_bc, other.weighted_bc),
     weight      |-> self.weight + other.weight,
     count       |-> other.count]

\* impl AddAssign for Summary<T>
add_assign(T, self, other) ==
    [bc          |-> Add(T, self.bc, other.bc),
     weighted_bc |-> Add(T, self.weighted_bc, other.weighted_bc),
     weight      |-> self.weight + other.weight,
     count       |-> self.count + other.count]

\* a node of the PAG; NoNode stands for Option::None
Node(ts, w) == [timestamp |-> ts, worker_id |-> w]
NoNode == Node(-1, -1)
\* Option<u64>::None of operator_id
NoOperator == -1

\* a PagOutput as this module reads it: its variant, src(), dst(), weight(),
\* and of an Edge the edge type (its u8 code and is_worker_local()) and the
\* operator id
PagEdge(s, d, code, local, op, w) ==
    [variant |-> "Edge", src |-> s, dst |-> d, weight |-> w,
     edge_type |-> [code |-> code, is_worker_local |-> local], operator_id |-> op]
PagStartNode(n) ==
    [variant |-> "StartNode", src |-> NoNode, dst |-> n, weight |-> 0,
     edge_type |-> [code |-> 0, is_worker_local |-> TRUE], operator_id |-> NoOperator]

\* the records the collaborators (PAG construction, betweenness_centrality,
\* single_path) may hand to the stages: two edges of one operator on worker 0
\* and one message edge from worker 0 to worker 1
EdgePool ==
    { PagEdge(Node(2, 0), Node(3, 0), 1, TRUE, 1, 1),
      PagEdge(Node(2, 0), Node(3, 0), 1, TRUE, 1, 2),
      PagEdge(Node(3, 0), Node(4, 1), 2, FALSE, NoOperator, 2) }
ForwardPool == { PagStartNode(Node(2, 0)), PagStartNode(Node(3, 0)) }
BcPool == { [edge |-> e, bc |-> s] : e \in EdgePool, s \in 1..MaxScore }

\* a classifier with the start and the end class exchanged
CrossesExchanged(crosses_start, crosses_end) ==
    IF crosses_start /\ crosses_end THEN "B"
    ELSE IF crosses_start THEN "E"
    ELSE IF crosses_end THEN "S"
    ELSE "N"

\* the (true, true) .. (false, false) match of MapToSummary
Crosses(crosses_start, crosses_end) ==
    IF crosses_start /\ crosses_end THEN "B"
    ELSE IF crosses_start THEN "S"
    ELSE IF crosses_end THEN "E"
    ELSE "N"

\* `x as u8`
as_u8(x) == x % 256

\* a mapping that files every edge under Local(source worker)
MapToSummaryAlwaysLocal(time, w_ns, edge, bc) ==
    LET w == edge.weight
        crosses_start == edge.src.timestamp = time * w_ns
        crosses_end == edge.dst.timestamp = time * w_ns + w_ns
        operator == IF edge.operator_id = NoOperator THEN 65535 ELSE edge.operator_id
    IN  [key |-> [activity |-> as_u8(edge.edge_type.code),
                  operator |-> as_u8(operator),
                  workers  |-> [kind |-> "Local", src |-> edge.src.worker_id,
                                dst |-> edge.src.worker_id],
                  crosses  |-> Crosses(crosses_start, crosses_end)],
         val |-> [weight |-> w, bc |-> bc,
                  weighted_bc |-> fl(bc * ImpreciseFrom(w)), count |-> 1]]

\* the closure of MapToSummary on one (edge, bc) at window `time`
MapToSummary(time, w_ns, edge, bc) ==
    LET w == edge.weight
        crosses_start == edge.src.timestamp = time * w_ns
        crosses_end == edge.dst.timestamp = time * w_ns + w_ns
        operator == IF edge.operator_id = NoOperator THEN 65535 ELSE edge.operator_id
    IN  [key |-> [activity |-> as_u8(edge.edge_type.code),
                  operator |-> as_u8(operator),
                  workers  |-> IF edge.edge_type.is_worker_local
                               THEN [kind |-> "Local", src |-> edge.src.worker_id,
                                     dst |-> edge.src.worker_id]
                               ELSE [kind |-> "Remote", src |-> edge.src.worker_id,
                                     dst |-> edge.dst.worker_id],
                  crosses  |-> Crosses(crosses_start, crosses_end)],
         val |-> [weight |-> w, bc |-> bc,
                  weighted_bc |-> fl(bc * ImpreciseFrom(w)), count |-> 1]]

\* a closure that scores a path edge by its weight
e_weight_scored_by_weight(edge) ==
    LET w == edge.weight
        operator == IF edge.operator_id = NoOperator THEN 255 ELSE edge.operator_id
    IN  [key |-> [activity |-> as_u8(edge.edge_type.code), operator |-> as_u8(operator)],
         val |-> [weight |-> w, bc |-> w, weighted_bc |-> w, count |-> 1]]

\* the closure of e_weight on one edge of the single path
e_weight(edge) ==
    LET w == edge.weight
        operator == IF edge.operator_id = NoOperator THEN 255 ELSE edge.operator_id
    IN  [key |-> [activity |-> as_u8(edge.edge_type.code), operator |-> as_u8(operator)],
         val |-> [weight |-> w, bc |-> 1, weighted_bc |-> w, count |-> 1]]

\* snailtrail::hash_code of an aggregation key
hash_code(key) == key.activity + key.operator

\* the partition a record is exchanged to
ExchangePipeline(from, n) == from
\* pact::Exchange::new(|_| 0), exchange(|_| 0)
ExchangeZero(from, n) == 0

AggregateRouteLocal(key, from, n) == from
\* aggregate(.., |key| hash_code(key)): Exchange by the key's hash
AggregateRoute(key, from, n) == hash_code(key) % n

\* ------------------------------------------------- the stages' machine
Msg(t, w, d) == [time |-> t, worker |-> w, data |-> d]
Give(bag, m) == bag (+) SetToBag({m})
Take(bag, m) == bag (-) SetToBag({m})
Emission(t, k, v, p) == [time |-> t, key |-> k, val |-> v, worker |-> p]

\* the key of the stages that have the window as their only key
WindowKey == "window"

\* progress tracking: the least time a port may still receive
PortFrontier(q) ==
    Min({up[PortStream[q]]} \cup {m.time : m \in BagToSet(chan[q])})
InputFrontier(o) == Min({PortFrontier(q) : q \in OperatorPorts[o]})
\* an operator holds a capability for every notification it waits for
OutputFrontier(o) ==
    Min({InputFrontier(o)} \cup UNION {pend[o][p] : p \in Workers})

\* the contributions produced for (t, k), with their exact totals
NoContribution == [n |-> 0, bc |-> 0, weighted_bc |-> 0, weight |-> 0, recs |-> EmptyBag]
Contribute(m, t, k, v) ==
    LET o == Get(m, <<t, k>>, NoContribution)
    IN  Put(m, <<t, k>>, [n |-> o.n + 1, bc |-> o.bc + v.bc,
                          weighted_bc |-> o.weighted_bc + v.weighted_bc,
                          weight |-> o.weight + v.weight,
                          recs |-> o.recs])
\* the same, remembering the record that was contributed
ContributeRecord(m, t, k, rec) ==
    LET o == Get(m, <<t, k>>, NoContribution)
    IN  Put(m, <<t, k>>, [o EXCEPT !.n = @ + 1, !.recs = Give(@, rec)])

\* what no step of the stages or of the feeder's injection touches
sendFrame ==
    UNCHANGED <<auxVars, input_records, window_size_ns, epochs, probes, idx, first,
                node_count, advanced, sent, current, printed, pf, proc, out_input,
                out_count, calls, peers>>
\* the stages leave the feeder's window alone
stageFrame == sendFrame /\ UNCHANGED old_epoch

InitStage ==
    /\ input_records = <<>>
    /\ window_size_ns = MaxWindowSize
    /\ epochs = 0
    /\ probes = probe_wrappers(FALSE, FALSE)
    /\ pc = "stages"
    /\ idx = 1
    /\ first = FALSE
    /\ old_epoch = 1
    /\ node_count = 0
    /\ advanced = FALSE
    /\ now_at = 1
    /\ sent = <<>>
    /\ current = [b \in Probes |-> new_current]
    /\ printed = [b \in Probes |-> <<>>]
    /\ pf = [b \in Probes |-> 0]
    /\ proc = [b \in Probes |-> 0]
    /\ out_input = <<>>
    /\ out_count = <<>>
    /\ calls = 0
    /\ \E n \in 1..MaxWorkers : StagesIdle(n)
    /\ AuxIdle

\* the feeder advances the input, or drops it after the last window
InputAdvances ==
    /\ pc = "stages"
    /\ now_at <= MaxWin
    /\ now_at' = now_at + 1
    /\ old_epoch' = now_at'
    /\ UNCHANGED <<pc, up, chan, pend, accums, bc_map, forward_map, aggregates,
                   emitted, submitted, produced>>
    /\ sendFrame

\* what holds a stream's frontier back
StreamBound(s) ==
    IF s = "forward" THEN now_at
    ELSE IF s = "bc" THEN up["forward"]
    ELSE Min2(up["forward"], OutputFrontier("SeedEdge"))

\* a collaborator lets go of a window
StreamAdvances(s) ==
    /\ pc = "stages"
    /\ up[s] < StreamBound(s)
    /\ up' = [up EXCEPT ![s] = @ + 1]
    /\ UNCHANGED <<pc, now_at, chan, pend, accums, bc_map, forward_map, aggregates,
                   emitted, submitted, produced>>
    /\ stageFrame

\* PAG construction on worker `from` gives a StartNode at window t
ProduceForward(t, rec, from) ==
    /\ pc = "stages"
    /\ produced < MaxEmit
    /\ up["forward"] <= t /\ t <= old_epoch
    /\ chan' = [chan EXCEPT
                  !["SeedEdge"] = Give(@, Msg(t, ExchangeZero(from, peers), rec)),
                  !["count2"] = Give(@, Msg(t, ExchangeZero(from, peers), rec))]
    /\ submitted' = [submitted EXCEPT
                  !["SeedEdge"] = ContributeRecord(@, t, WindowKey, rec),
                  !["count"] = Contribute(@, t, WindowKey, NoContribution)]
    /\ produced' = produced + 1
    /\ UNCHANGED <<pc, now_at, up, pend, accums, bc_map, forward_map, aggregates, emitted>>
    /\ stageFrame

\* betweenness_centrality on worker `from` gives (edge, bc) at window t;
\* MapToSummary maps it in place
ProduceBc(t, item, from) ==
    /\ pc = "stages"
    /\ produced < MaxEmit
    /\ up["bc"] <= t /\ t <= old_epoch
    /\ produced' = produced + 1
    /\ IF item.edge.variant # "Edge"
       THEN /\ pc' = "aborted"
            /\ UNCHANGED <<chan, submitted>>
       ELSE LET kv == MapToSummary(t, window_size_ns, item.edge, item.bc)
            IN  /\ chan' = [chan EXCEPT
                      !["count1"] = Give(@, Msg(t, ExchangeZero(from, peers), item)),
                      !["summary"] = Give(@, Msg(t, AggregateRoute(kv.key, from, peers), kv))]
                /\ submitted' = [submitted EXCEPT
                      !["count"] = ContributeRecord(@, t, WindowKey, item),
                      !["summary"] = Contribute(@, t, kv.key, kv.val)]
                /\ pc' = pc
    /\ UNCHANGED <<now_at, up, pend, accums, bc_map, forward_map, aggregates, emitted>>
    /\ stageFrame

\* single_path on worker `from` gives an edge of the path seeded for window t
ProduceSp(t, edge, from) ==
    /\ pc = "stages"
    /\ produced < MaxEmit
    /\ up["sp"] <= t
    /\ \E e \in BagToSet(emitted["SeedEdge"]) : e.time = t
    /\ produced' = produced + 1
    /\ IF edge.variant # "Edge"
       THEN /\ pc' = "aborted"
            /\ UNCHANGED <<chan, submitted>>
       ELSE LET kv == e_weight(edge)
            IN  /\ chan' = [chan EXCEPT
                      !["sp_summary"] = Give(@, Msg(t, AggregateRoute(kv.key, from, peers), kv))]
                /\ submitted' = [submitted EXCEPT
                      !["sp_summary"] = Contribute(@, t, kv.key, kv.val)]
                /\ pc' = pc
    /\ UNCHANGED <<now_at, up, pend, accums, bc_map, forward_map, aggregates, emitted>>
    /\ stageFrame

\* SeedEdge, input.for_each: buffer the record, ask for the window's closure
ReceiveSeedEdge(m) ==
    /\ pc = "stages"
    /\ m \in BagToSet(chan["SeedEdge"])
    /\ chan' = [chan EXCEPT !["SeedEdge"] = Take(@, m)]
    /\ accums' = [accums EXCEPT ![m.worker] =
                      Put(@, m.time, Append(Get(@, m.time, <<>>), m.data))]
    /\ pend' = [pend EXCEPT !["SeedEdge"][m.worker] = @ \cup {m.time}]
    /\ UNCHANGED <<pc, now_at, up, bc_map, forward_map, aggregates, emitted,
                   submitted, produced>>
    /\ stageFrame

\* a sampler that draws from everything the workers have buffered
choose_any_window(accum) ==
    UNION {{accums[x[1]][x[2]][i] : i \in 1..Len(accums[x[1]][x[2]])} :
               x \in {y \in Workers \X Windows : y[2] \in DOMAIN accums[y[1]]}}

\* accum[..].choose(&mut rng): the elements thread_rng may pick, none if empty
choose(accum) == {accum[i] : i \in 1..Len(accum)}

\* SeedEdge, notificator.for_each: give one buffered record, any of them
NotifySeedEdge(p, t) ==
    /\ pc = "stages"
    /\ t \in pend["SeedEdge"][p]
    /\ InputFrontier("SeedEdge") > t
    /\ pend' = [pend EXCEPT !["SeedEdge"][p] = @ \ {t}]
    /\ IF t \in DOMAIN accums[p]
       THEN /\ accums' = [accums EXCEPT ![p] = Remove(@, t)]
            /\ IF choose(accums[p][t]) # {}
               THEN \E elem \in choose(accums[p][t]) :
                        emitted' = [emitted EXCEPT !["SeedEdge"] =
                                      Give(@, Emission(t, WindowKey, elem, p))]
               ELSE UNCHANGED emitted
       ELSE UNCHANGED <<accums, emitted>>
    /\ UNCHANGED <<pc, now_at, up, chan, bc_map, forward_map, aggregates,
                   submitted, produced>>
    /\ stageFrame

\* count, input1.for_each: add the score under the edge's source
ReceiveCount1(m) ==
    /\ pc = "stages"
    /\ m \in BagToSet(chan["count1"])
    /\ chan' = [chan EXCEPT !["count1"] = Take(@, m)]
    /\ IF m.data.edge.src = NoNode
       THEN /\ pc' = "aborted"
            /\ UNCHANGED <<bc_map, pend>>
       ELSE LET bc_entry == Get(bc_map[m.worker], m.time, EmptyMap)
                src == m.data.edge.src
            IN  /\ bc_map' = [bc_map EXCEPT ![m.worker] =
                        Put(@, m.time,
                            Put(bc_entry, src, Get(bc_entry, src, 0) + as_u64(m.data.bc)))]
                /\ pend' = [pend EXCEPT !["count"][m.worker] = @ \cup {m.time}]
                /\ pc' = pc
    /\ UNCHANGED <<now_at, up, accums, forward_map, aggregates, emitted,
                   submitted, produced>>
    /\ stageFrame

\* count, input2.for_each: buffer the forward edge
ReceiveCount2(m) ==
    /\ pc = "stages"
    /\ m \in BagToSet(chan["count2"])
    /\ chan' = [chan EXCEPT !["count2"] = Take(@, m)]
    /\ forward_map' = [forward_map EXCEPT ![m.worker] =
                          Put(@, m.time, Append(Get(@, m.time, <<>>), m.data))]
    /\ pend' = [pend EXCEPT !["count"][m.worker] = @ \cup {m.time}]
    /\ UNCHANGED <<pc, now_at, up, accums, bc_map, aggregates, emitted,
                   submitted, produced>>
    /\ stageFrame

\* a total that counts the forward edges whose destination has a score
SumPathsMatches(forward_edges, bc_entry, i) ==
    Cardinality({j \in i..Len(forward_edges) : forward_edges[j].dst \in DOMAIN bc_entry})

\* the sum of the scores found under the forward edges' destinations
RECURSIVE SumPaths(_, _, _)
SumPaths(forward_edges, bc_entry, i) ==
    IF i > Len(forward_edges) THEN 0
    ELSE Get(bc_entry, forward_edges[i].dst, 0) + SumPaths(forward_edges, bc_entry, i + 1)

\* count, notificator.for_each: give the window's total, drop both buffers
NotifyCount(p, t) ==
    /\ pc = "stages"
    /\ t \in pend["count"][p]
    /\ InputFrontier("count") > t
    /\ pend' = [pend EXCEPT !["count"][p] = @ \ {t}]
    /\ LET forward_edges == Get(forward_map[p], t, <<>>)
           looked_up == t \in DOMAIN forward_map[p] /\ t \in DOMAIN bc_map[p]
       IN  IF looked_up /\ \E i \in 1..Len(forward_edges) : forward_edges[i].dst = NoNode
           THEN /\ pc' = "aborted"
                /\ forward_map' = [forward_map EXCEPT ![p] = Remove(@, t)]
                /\ UNCHANGED <<bc_map, emitted>>
           ELSE /\ pc' = pc
                /\ bc_map' = [bc_map EXCEPT ![p] = Remove(@, t)]
                /\ forward_map' = [forward_map EXCEPT ![p] = Remove(@, t)]
                /\ emitted' = [emitted EXCEPT !["count"] =
                      Give(@, Emission(t, WindowKey,
                                       IF looked_up
                                       THEN SumPaths(forward_edges, bc_map[p][t], 1)
                                       ELSE 0, p))]
    /\ UNCHANGED <<now_at, up, chan, accums, aggregates, submitted, produced>>
    /\ stageFrame

\* the score type of each aggregation
ScoreType(o) == IF o = "summary" THEN "f64" ELSE "u64"

\* aggregate, input.for_each: fold the value into the key's aggregate
ReceiveAggregate(o, m) ==
    /\ pc = "stages"
    /\ m \in BagToSet(chan[o])
    /\ chan' = [chan EXCEPT ![o] = Take(@, m)]
    /\ LET agg_time == Get(aggregates[o][m.worker], m.time, EmptyMap)
           agg == Get(agg_time, m.data.key, DefaultSummary)
       IN  aggregates' = [aggregates EXCEPT ![o][m.worker] =
               Put(@, m.time, Put(agg_time, m.data.key,
                                  add_assign(ScoreType(o), agg, m.data.val)))]
    /\ pend' = [pend EXCEPT ![o][m.worker] = @ \cup {m.time}]
    /\ UNCHANGED <<pc, now_at, up, accums, bc_map, forward_map, emitted,
                   submitted, produced>>
    /\ stageFrame

\* aggregate, notificator.for_each: give (key, agg) of every key of the window
NotifyAggregate(o, p, t) ==
    /\ pc = "stages"
    /\ t \in pend[o][p]
    /\ InputFrontier(o) > t
    /\ pend' = [pend EXCEPT ![o][p] = @ \ {t}]
    /\ IF t \in DOMAIN aggregates[o][p]
       THEN LET aggs == aggregates[o][p][t]
            IN  /\ aggregates' = [aggregates EXCEPT ![o][p] = Remove(@, t)]
                /\ emitted' = [emitted EXCEPT ![o] =
                      @ (+) SetToBag({Emission(t, k, aggs[k], p) : k \in DOMAIN aggs})]
       ELSE UNCHANGED <<aggregates, emitted>>
    /\ UNCHANGED <<pc, now_at, up, chan, accums, bc_map, forward_map,
                   submitted, produced>>
    /\ stageFrame

Aggregations == {"summary", "sp_summary"}

\* the steps of the collaborators and of the four operators
StageSteps ==
    \/ \E s \in Streams : StreamAdvances(s)
    \/ \E t \in Windows, rec \in ForwardPool, from \in Workers : ProduceForward(t, rec, from)
    \/ \E t \in Windows, item \in BcPool, from \in Workers : ProduceBc(t, item, from)
    \/ \E t \in Windows, edge \in EdgePool, from \in Workers : ProduceSp(t, edge, from)
    \/ \E m \in BagToSet(chan["SeedEdge"]) : ReceiveSeedEdge(m)
    \/ \E p \in Workers, t \in Windows : NotifySeedEdge(p, t)
    \/ \E m \in BagToSet(chan["count1"]) : ReceiveCount1(m)
    \/ \E m \in BagToSet(chan["count2"]) : ReceiveCount2(m)
    \/ \E p \in Workers, t \in Windows : NotifyCount(p, t)
    \/ \E o \in Aggregations : \E m \in BagToSet(chan[o]) : ReceiveAggregate(o, m)
    \/ \E o \in Aggregations, p \in Workers, t \in Windows : NotifyAggregate(o, p, t)

NextStage == InputAdvances \/ StageSteps

SpecStage == InitStage /\ [][NextStage]_vars

\* ------------------------------------------------------------------ claims
IsSorted(s) == \A i \in 1..Len(s) : \A j \in i..Len(s) : s[i] <= s[j]

\* the window of every input record
InputWindows == {Epoch(input_records[i], window_size_ns) : i \in 1..Len(input_records)}

\* the elements of a finite set of numbers, in increasing order
RECURSIVE Ascending(_)
Ascending(S) ==
    IF S = {} THEN <<>>
    ELSE LET m == CHOOSE x \in S : \A y \in S : x <= y
         IN  <<m>> \o Ascending(S \ {m})

\* the number of input records in window w
RecordsIn(w) ==
    Cardinality({i \in 1..Len(input_records) :
                    Epoch(input_records[i], window_size_ns) = w})

\* the feeder has stopped: it returned or it panicked
Stopped == pc \in {"done", "aborted"}

\* the branch of probe b has a sent record of a window <= w left to process
Outstanding(b, w) == \E i \in (proc[b] + 1)..Len(sent) : sent[i].time <= w

C2_PrintsOnlyClosedWindows ==
    [][\A b \in Probes :
         \A i \in (Len(printed[b]) + 1)..Len(printed'[b]) :
             ~Outstanding(b, printed'[b][i])]_vars

\* C3: the feeder's frontier never decreases and a record is never injected
\* at a window the frontier has already left, whatever the input order.
C3_ClosedWindowsStayClosed ==
    [][/\ now_at' >= now_at
       /\ \A i \in (Len(sent) + 1)..Len(sent') :
              /\ sent'[i].time >= now_at
              /\ \A j \in 1..Len(sent) : sent'[i].time >= sent[j].time]_vars

\* C3 witness: an out-of-order record (its own window is behind the
\* frontier) has been injected.
C3_Witness ==
    \E i \in 1..Len(sent) : sent[i].ts \div window_size_ns < sent[i].time

\* C4: on sorted input every injected record is tagged with
\* floor(timestamp / window_size) and the tags never decrease.
C4_EpochAssignment ==
    IsSorted(input_records) =>
        /\ \A i \in 1..Len(sent) :
               /\ sent[i].ts = input_records[i]
               /\ sent[i].time * window_size_ns <= sent[i].ts
               /\ sent[i].ts < (sent[i].time + 1) * window_size_ns
        /\ \A i \in 1..Len(sent) : \A j \in i..Len(sent) : sent[i].time <= sent[j].time

\* C4 witness: two records of different windows were injected, the second
\* with a timestamp that is not a multiple of the window width.
C4_Witness ==
    /\ IsSorted(input_records)
    /\ window_size_ns = 2
    /\ Len(sent) = 2
    /\ sent[1].time < sent[2].time
    /\ sent[2].ts % window_size_ns # 0

\* C5 as stated: for every non-empty sorted input the feeder prints one
\* record count per non-empty window, in increasing window order, each
\* equal to the number of input records of that window.
C5_CountPerWindow ==
    (Stopped /\ input_records # <<>> /\ IsSorted(input_records)) =>
        LET ws == Ascending(InputWindows)
        IN  out_count = [i \in 1..Len(ws) |-> <<ws[i], RecordsIn(ws[i])>>]

\* C6 as stated: for every non-empty sorted input the feeder prints one
\* "EPOCH input" line per distinct window of the input, the first record's
\* window included, in strictly increasing order.
C6_CrossingPerWindow ==
    (Stopped /\ input_records # <<>> /\ IsSorted(input_records)) =>
        out_input = Ascending(InputWindows)

\* C7 as stated: when the feeder returns, every enabled tracker's pointer is
\* beyond the last input window and no branch has outstanding work at a
\* window up to and including the last one.
C7_FinalDrainComplete ==
    (pc = "done" /\ input_records # <<>>) =>
        \A b \in Probes :
            /\ current[b] > now_at
            /\ ~Outstanding(b, now_at)

\* C8 as stated: a tracker's current pointer never decreases, whatever the
\* sequence of calls to new, set_current and print_and_advance.
C8_CurrentNeverDecreases ==
    [][\A b \in Probes : current'[b] >= current[b]]_vars

\* C8 amended: current never decreases across construction and any sequence
\* of print_and_advance calls; the only call that lowers it is
\* set_current(t) with t below the pointer, which assigns t unconditionally.
C8_OnlySetCurrentLowers ==
    [][\A b \in Probes :
         current'[b] < current[b] =>
             /\ \E t \in 0..MaxTs : t < current[b] /\ CallSetCurrent(t)
             /\ ~CallPrintAndAdvance]_vars

\* C8 witness: print_and_advance has moved the pointer past a window it
\* printed, after set_current had placed it.
C8_Witness ==
    /\ pc = "caller"
    /\ calls >= 2
    /\ Len(printed[1]) >= 2
    /\ printed[1][1] > 0
    /\ current[1] = pf[1] + 1

\* --------------------------------------------------- claims on the stages
\* the exact component-wise totals of the contributions produced for the
\* (window, key) of an emission
Totals(o, e) ==
    LET s == submitted[o][<<e.time, e.key>>]
    IN  [bc |-> s.bc, weighted_bc |-> s.weighted_bc, weight |-> s.weight, count |-> s.n]

\* the largest total up to which every f64 partial sum of non-negative
\* integers is exact
MaxExact == 2^Precision

\* C9 as stated: in the summary and single-path-summary stages the value
\* emitted for a (window, key) is the component-wise sum of all the
\* contributions produced for that (window, key), whatever their arrival
\* order and the partitions they come from.
C9_EmittedIsExactSum ==
    \A o \in Aggregations : \A e \in BagToSet(emitted[o]) : e.val = Totals(o, e)

\* C9 amended: the emitted weight and count are the exact sums; the emitted
\* score and weighted score are the exact sums in the single-path summary
\* (integer scores) and, in the summary (f64 scores), whenever the exact sum
\* is small enough for every partial sum to be representable.
C9_EmittedIsRepresentableSum ==
    \A o \in Aggregations : \A e \in BagToSet(emitted[o]) :
        LET s == Totals(o, e)
        IN  /\ e.val.weight = s.weight
            /\ e.val.count = s.count
            /\ (ScoreType(o) = "u64" \/ s.bc <= MaxExact) => e.val.bc = s.bc
            /\ (ScoreType(o) = "u64" \/ s.weighted_bc <= MaxExact)
                   => e.val.weighted_bc = s.weighted_bc

\* two contributions that came from different workers were summed into one
\* emitted summary, and the other aggregation has emitted too
C9_Witness ==
    /\ peers = 2
    /\ \E e \in BagToSet(emitted["summary"]) :
           /\ Totals("summary", e).count = 2
           /\ e.val = Totals("summary", e)
           /\ e.val.bc > 1

\* the number of emissions of operator o for (t, k), over all partitions
EmissionsFor(o, t, k) ==
    LET S == {e \in BagToSet(emitted[o]) : e.time = t /\ e.key = k}
    IN  BagCardinality([e \in S |-> emitted[o][e]])

\* C10: in the seed sampler, the path count, the summary and the single-path
\* summary there is never more than one emission per (window, key) over all
\* partitions, and once the stage has closed a window there is exactly one
\* for every (window, key) that received a contribution.
C10_ExactlyOnce ==
    \A o \in Operators :
        /\ \A e \in BagToSet(emitted[o]) : EmissionsFor(o, e.time, e.key) = 1
        /\ \A tk \in DOMAIN submitted[o] :
               OutputFrontier(o) > tk[1] => EmissionsFor(o, tk[1], tk[2]) = 1

\* every stage has closed every window, after contributions from two
\* partitions, and the sampler, the path count and a summary have emitted
C10_Witness ==
    /\ peers = 2
    /\ \A o \in Operators : OutputFrontier(o) > MaxWin
    /\ Cardinality(DOMAIN submitted["count"]) = 2
    /\ emitted["SeedEdge"] # EmptyBag
    /\ BagCardinality(emitted["count"]) = 2
    /\ emitted["summary"] # EmptyBag

\* the operators that buffer records per window, and worker p's buffers
Buffering == {"SeedEdge", "count"}
HasEntry(o, p, t) ==
    IF o = "SeedEdge" THEN t \in DOMAIN accums[p]
    ELSE t \in DOMAIN bc_map[p] \/ t \in DOMAIN forward_map[p]

\* the instance of o on worker p is past the closure of window t: its inputs'
\* frontier has passed t and it waits for no notification at t
ClosureProcessed(o, p, t) == InputFrontier(o) > t /\ t \notin pend[o][p]

\* C11: once the seed sampler or the path count has processed the closure of
\* window W, none of its per-window maps holds an entry for W, in this state
\* and in every later one: the closure stays processed and no step creates an
\* entry for W again.
C11_NoWindowSurvivesClosure ==
    [][\A o \in Buffering : \A p \in Workers : \A t \in Windows :
           ClosureProcessed(o, p, t) =>
               /\ ~HasEntry(o, p, t)
               /\ ClosureProcessed(o, p, t)'
               /\ ~HasEntry(o, p, t)']_vars

\* both stages have emitted for window 1 and dropped its buffers while the
\* buffers of window 2 are still held
C11_Witness ==
    /\ \E e \in BagToSet(emitted["SeedEdge"]) : e.time = 1
    /\ \E e \in BagToSet(emitted["count"]) : e.time = 1
    /\ ClosureProcessed("SeedEdge", 0, 1) /\ ClosureProcessed("count", 0, 1)
    /\ HasEntry("count", 0, 2)

\* C12: build_dataflow returns exactly the PAG tracker when disable_bc is set,
\* exactly [PAG, centrality] when only disable_summary is set, and the five
\* trackers [PAG, centrality, single-path, summary, single-path-summary]
\* otherwise; the names run_dataflow gives them follow that order, and the
\* feeder's tracker list is one of these three.
C12_TrackerListContract ==
    /\ \A disable_bc \in BOOLEAN, disable_summary \in BOOLEAN :
           LET ps == build_dataflow_probes(disable_bc, disable_summary)
               ws == probe_wrappers(disable_bc, disable_summary)
           IN  /\ disable_bc => ps = <<"probe_pag">> /\ ws = <<"pag">>
               /\ (~disable_bc /\ disable_summary)
                      => ps = <<"probe_pag", "probe_bc">> /\ ws = <<"pag", "bc">>
               /\ (~disable_bc /\ ~disable_summary)
                      => /\ ps = <<"probe_pag", "probe_bc", "probe_sp",
                                   "probe_summary", "probe_sp_summary">>
                         /\ ws = <<"pag", "bc", "sp", "summary", "sp_summary">>
    /\ probes \in {<<"pag">>, <<"pag", "bc">>, <<"pag", "bc", "sp", "summary", "sp_summary">>}
    /\ DOMAIN current = 1..Len(probes)

\* a run with centrality enabled and summaries disabled has returned, and both
\* of its trackers have printed a window
C12_Witness ==
    /\ probes = <<"pag", "bc">>
    /\ pc = "done"
    /\ \A b \in Probes : printed[b] # <<>>

\* what was contributed to operator o for (t, k)
Contributed(o, t, k) == Get(submitted[o], <<t, k>>, NoContribution)

\* C13: for every window W the seed sampler emits at most one seed, the seed
\* is one of the forward edges produced for W itself, whichever partition
\* produced it, and once W is closed there is exactly one seed if a forward
\* edge was buffered for W and none otherwise.
C13_SeedFromOwnWindow ==
    \A t \in Windows :
        LET c == Contributed("SeedEdge", t, WindowKey)
            n == EmissionsFor("SeedEdge", t, WindowKey)
        IN  /\ n <= 1
            /\ \A e \in BagToSet(emitted["SeedEdge"]) :
                   e.time = t => BagIn(e.val, c.recs) /\ e.key = WindowKey
            /\ OutputFrontier("SeedEdge") > t => n = (IF c.n >= 1 THEN 1 ELSE 0)

\* both windows are closed; window 1 got one forward edge from each of two
\* partitions' worth of input and emitted one of them, window 2 got a
\* different edge or none
C13_Witness ==
    /\ peers = 2
    /\ OutputFrontier("SeedEdge") > MaxWin
    /\ \E e \in BagToSet(emitted["SeedEdge"]) :
           /\ e.time = 1
           /\ BagIn(e.val, Contributed("SeedEdge", 1, WindowKey).recs)
    /\ Contributed("SeedEdge", 2, WindowKey).n >= 1
    /\ Contributed("SeedEdge", 1, WindowKey).recs # Contributed("SeedEdge", 2, WindowKey).recs

\* ------------------------------------------- the metrics of build_dataflow
\* records the PAG construction may give in a run of the metrics
MaxRecords == 3

\* the streams build_dataflow counts, and the PagOutput variants each keeps
Counted == {"pag_output", "forward", "backward", "graph"}
Variants == {"StartNode", "EndNode", "Edge"}
Keeps(stream, variant) ==
    \/ stream = "pag_output"
    \/ stream = "forward" /\ variant = "StartNode"
    \/ stream = "backward" /\ variant = "EndNode"
    \/ stream = "graph" /\ variant = "Edge"

\* backward and graph are counted only if config.verbose > 0
Wired(stream, v) == stream \in {"pag_output", "forward"} \/ v > 0

\* the partition a record is counted on: pag_output and forward go through
\* exchange(|_| 0) first, backward and graph straight into count
CountRoute(stream, from, n) ==
    IF stream \in {"pag_output", "forward"} THEN ExchangeZero(from, n) ELSE from

\* the frontier of the input of a stream's count
CountFrontier(stream) ==
    Min({up["forward"]} \cup
        {m.time : m \in {x \in BagToSet(metrics.chan) : x.stream = stream}})

metricFrame ==
    UNCHANGED <<input_records, window_size_ns, epochs, probes, pc, idx, first, old_epoch,
                node_count, advanced, now_at, sent, current, printed, pf, proc,
                out_input, out_count, calls, peers, chan, pend, accums, bc_map,
                forward_map, aggregates, emitted, submitted, verbose, fn_in, fn_out>>

InitMetrics ==
    /\ input_records = <<>>
    /\ window_size_ns = MaxWindowSize
    /\ epochs = 0
    /\ probes = probe_wrappers(FALSE, FALSE)
    /\ pc = "metrics"
    /\ idx = 1
    /\ first = FALSE
    /\ old_epoch = 1
    /\ node_count = 0
    /\ advanced = FALSE
    /\ now_at = MaxWin + 1
    /\ sent = <<>>
    /\ current = [b \in Probes |-> new_current]
    /\ printed = [b \in Probes |-> <<>>]
    /\ pf = [b \in Probes |-> 0]
    /\ proc = [b \in Probes |-> 0]
    /\ out_input = <<>>
    /\ out_count = <<>>
    /\ calls = 0
    /\ \E n \in 1..MaxWorkers : StagesIdle(n)
    /\ verbose \in 0..2
    /\ metrics = MetricsEmpty
    /\ fn_in = <<>>
    /\ fn_out = <<>>

\* PAG construction on worker `from` gives a record of some variant at window t
MetricProduce(t, variant, from) ==
    /\ pc = "metrics"
    /\ produced < MaxRecords
    /\ up["forward"] <= t
    /\ LET kept == {s \in Counted : Keeps(s, variant)}
           new == {<<s, t>> : s \in kept}
       IN  metrics' = [metrics EXCEPT
               !.chan = @ (+) SetToBag({[stream |-> s, time |-> t,
                                         worker |-> CountRoute(s, from, peers)] :
                                            s \in {x \in kept : Wired(x, verbose)}}),
               !.given = [x \in DOMAIN @ \cup new |->
                              Get(@, x, 0) + (IF x \in new THEN 1 ELSE 0)]]
    /\ produced' = produced + 1
    /\ UNCHANGED up
    /\ metricFrame

\* count, input.for_each: *sum += data.len(), ask for the window's closure
MetricReceive(m) ==
    /\ pc = "metrics"
    /\ m \in BagToSet(metrics.chan)
    /\ LET k == <<m.stream, m.worker, m.time>>
       IN  metrics' = [metrics EXCEPT
               !.chan = Take(@, m),
               !.accums = Put(@, k, Get(@, k, 0) + 1),
               !.pend = @ \cup {k}]
    /\ UNCHANGED <<up, produced>>
    /\ metricFrame

\* count, notificator.for_each: give the accumulated count and drop it
MetricNotify(stream, p, t) ==
    /\ pc = "metrics"
    /\ <<stream, p, t>> \in metrics.pend
    /\ CountFrontier(stream) > t
    /\ LET k == <<stream, p, t>>
       IN  metrics' = [metrics EXCEPT
               !.pend = @ \ {k},
               !.accums = Remove(@, k),
               !.out = IF k \in DOMAIN metrics.accums
                       THEN Give(@, [stream |-> stream, time |-> t, worker |-> p,
                                     count |-> metrics.accums[k]])
                       ELSE @]
    /\ UNCHANGED <<up, produced>>
    /\ metricFrame

\* PAG construction lets go of a window
MetricAdvance ==
    /\ pc = "metrics"
    /\ up["forward"] <= MaxWin
    /\ up' = [up EXCEPT !["forward"] = @ + 1]
    /\ UNCHANGED <<metrics, produced>>
    /\ metricFrame

NextMetrics ==
    \/ \E t \in Windows, variant \in Variants, from \in Workers : MetricProduce(t, variant, from)
    \/ \E m \in BagToSet(metrics.chan) : MetricReceive(m)
    \/ \E stream \in Counted, p \in Workers, t \in Windows : MetricNotify(stream, p, t)
    \/ MetricAdvance

SpecMetrics == InitMetrics /\ [][NextMetrics]_vars

\* the COUNT lines of a stream for a window
CountsOf(stream, t) == {e \in BagToSet(metrics.out) : e.stream = stream /\ e.time = t}

SingleTotal(stream, t) ==
    /\ BagCardinality([e \in CountsOf(stream, t) |-> metrics.out[e]]) <= 1
    /\ \A e \in CountsOf(stream, t) : e.count = Get(metrics.given, <<stream, t>>, 0)

\* C14: for the PagOutput stream and for forward, backward and graph, the
\* count emitted for a window is one total over all partitions, equal to the
\* number of records of that stream in that window.
C14_SingleTotalPerWindow ==
    \A stream \in Counted : \A t \in Windows : SingleTotal(stream, t)

\* what the code does give: single totals for the two exchanged streams
ExchangedTotals ==
    \A stream \in {"pag_output", "forward"} : \A t \in Windows : SingleTotal(stream, t)

\* ------------------------------------------- the closure of MapToSummary
\* largest timestamp and widest window the classifier is applied to
MaxStamp == 8
MaxWidth == 4

\* neither the feeder nor the stages run
FnInit ==
    /\ input_records = <<>>
    /\ window_size_ns = MaxWindowSize
    /\ epochs = 0
    /\ probes = probe_wrappers(FALSE, FALSE)
    /\ pc = "fn"
    /\ idx = 1
    /\ first = FALSE
    /\ old_epoch = 0
    /\ node_count = 0
    /\ advanced = FALSE
    /\ now_at = 0
    /\ sent = <<>>
    /\ current = [b \in Probes |-> new_current]
    /\ printed = [b \in Probes |-> <<>>]
    /\ pf = [b \in Probes |-> 0]
    /\ proc = [b \in Probes |-> 0]
    /\ out_input = <<>>
    /\ out_count = <<>>
    /\ calls = 0
    /\ StagesIdle(1)
    /\ verbose = 0
    /\ metrics = MetricsEmpty

fnFrame ==
    UNCHANGED <<feederVars, calls, stageVars, verbose, metrics, fn_in>>

\* an edge from timestamp s to timestamp d, scored 1, in window w of width W
InitClassifier ==
    /\ FnInit
    /\ fn_in \in [s : 0..MaxStamp, d : 0..MaxStamp, w : 0..MaxWin, W : 1..MaxWidth]
    /\ fn_out = <<>>

\* MapToSummary maps the edge; the class is the last component of its key
Classify ==
    /\ pc = "fn"
    /\ fn_out = <<>>
    /\ fn_out' = <<MapToSummary(fn_in.w, fn_in.W,
                                PagEdge(Node(fn_in.s, 0), Node(fn_in.d, 0), 1, TRUE, 1, 1),
                                1).key.crosses>>
    /\ fnFrame

NextClassifier == Classify

SpecClassifier == InitClassifier /\ [][NextClassifier]_vars

\* C15: an edge from s to d in window w of width W is classified B iff
\* s = w*W and d = w*W + W, S iff only s = w*W, E iff only d = w*W + W, and N
\* otherwise; so in window 0 the edge (0, W) is B, an edge from 0 that ends
\* inside is S, an edge from inside to W is E and an edge inside is N.
C15_CrossingClassifier ==
    fn_out # <<>> =>
        LET at_start == fn_in.s = fn_in.w * fn_in.W
            at_end == fn_in.d = fn_in.w * fn_in.W + fn_in.W
            class == fn_out[1]
        IN  /\ class \in {"B", "S", "E", "N"}
            /\ class = "B" <=> (at_start /\ at_end)
            /\ class = "S" <=> (at_start /\ ~at_end)
            /\ class = "E" <=> (~at_start /\ at_end)
            /\ class = "N" <=> (~at_start /\ ~at_end)
            /\ (fn_in.w = 0 /\ fn_in.s = 0 /\ fn_in.d = fn_in.W) => class = "B"
            /\ (fn_in.w = 0 /\ fn_in.s = 0 /\ fn_in.d = fn_in.W \div 2) => class = "S"
            /\ (fn_in.w = 0 /\ fn_in.s = fn_in.W \div 2 /\ fn_in.d = fn_in.W /\ fn_in.W > 1)
                   => class = "E"
            /\ (fn_in.w = 0 /\ 0 < fn_in.s /\ fn_in.s <= fn_in.d /\ fn_in.d < fn_in.W)
                   => class = "N"

\* an edge that starts inside window 1 and ends on its end was classified E
C15_Witness ==
    /\ fn_in = [s |-> 5, d |-> 8, w |-> 1, W |-> 4]
    /\ fn_out = <<"E">>

\* ------------------------------------------------ folds of Summary values
\* the longest list of contributions folded
MaxFold == 3

\* the contributions the two classification closures produce, and the default
SummaryPool ==
    {MapToSummary(1, MaxWindowSize, i.edge, i.bc).val : i \in BcPool}
        \cup {e_weight(e).val : e \in EdgePool}
        \cup {DefaultSummary}

\* the contributions of a (window, key) and the score type of the stage
InitFold ==
    /\ FnInit
    /\ fn_in \in [T : {"f64", "u64"}, items : SeqsUpTo(SummaryPool, MaxFold)]
    /\ fn_out = [acc |-> DefaultSummary, done |-> {}]

\* the fold of aggregate: `*agg += val`, for the contributions in the order
\* they arrive
FoldOne(i) ==
    /\ pc = "fn"
    /\ i \in (1..Len(fn_in.items)) \ fn_out.done
    /\ fn_out' = [acc  |-> add_assign(fn_in.T, fn_out.acc, fn_in.items[i]),
                  done |-> fn_out.done \cup {i}]
    /\ fnFrame

NextFold == \E i \in 1..MaxFold : FoldOne(i)

SpecFold == InitFold /\ [][NextFold]_vars

RECURSIVE SumOver(_, _, _)
\* the exact sum of one component over the contributions with index in S
SumOver(items, S, f) ==
    IF S = {} THEN 0
    ELSE LET i == CHOOSE j \in S : TRUE
         IN  f[items[i]] + SumOver(items, S \ {i}, f)

\* the exact component-wise sum of the contributions with index in S
ExactSum(items, S) ==
    [bc          |-> SumOver(items, S, [x \in SummaryPool |-> x.bc]),
     weighted_bc |-> SumOver(items, S, [x \in SummaryPool |-> x.weighted_bc]),
     weight      |-> SumOver(items, S, [x \in SummaryPool |-> x.weight]),
     count       |-> SumOver(items, S, [x \in SummaryPool |-> x.count])]

\* integer scores whose totals every partial sum of the score type represents
BoundedScores(T, items) ==
    LET all == ExactSum(items, 1..Len(items))
    IN  T = "u64" \/ (all.bc <= MaxExact /\ all.weighted_bc <= MaxExact)

\* C16: over bounded integer-valued scores, merging a multiset of
\* contributions into the default Summary yields, in whatever order they are
\* merged, the same {score, weighted_score, weight, count}: the component-wise
\* sum; so the addition is commutative and associative, and the default
\* Summary is its identity.
C16_FoldOrderIrrelevant ==
    (pc = "fn" /\ "acc" \in DOMAIN fn_out /\ BoundedScores(fn_in.T, fn_in.items)) =>
        /\ fn_out.acc = ExactSum(fn_in.items, fn_out.done)
        /\ \A i \in 1..Len(fn_in.items) :
               /\ add_assign(fn_in.T, DefaultSummary, fn_in.items[i]) = fn_in.items[i]
               /\ add_assign(fn_in.T, fn_in.items[i], DefaultSummary) = fn_in.items[i]
               /\ \A j \in 1..Len(fn_in.items) :
                      add_assign(fn_in.T, fn_in.items[i], fn_in.items[j])
                          = add_assign(fn_in.T, fn_in.items[j], fn_in.items[i])

\* three contributions with f64 scores, not all the same, were merged
C16_Witness ==
    /\ pc = "fn" /\ "acc" \in DOMAIN fn_out
    /\ fn_in.T = "f64"
    /\ Len(fn_in.items) = 3
    /\ Cardinality({fn_in.items[i] : i \in 1..3}) >= 2
    /\ \A i \in 1..3 : fn_in.items[i] # DefaultSummary
    /\ BoundedScores(fn_in.T, fn_in.items)
    /\ fn_out.done = 1..3
    /\ fn_out.acc.count = 3
    /\ fn_out.acc.bc >= 3

\* --------------------------------- records that break the upstream contract
\* a forward record whose dst() is None
ForwardWithoutDst == PagStartNode(NoNode)
\* scored records that are not an Edge, or whose src() is None
BcFaultPool ==
    { [edge |-> PagStartNode(Node(2, 0)), bc |-> 1],
      [edge |-> PagEdge(NoNode, Node(3, 0), 1, TRUE, 1, 1), bc |-> 1] }
\* a record of the seeded path that is not an Edge
SpFaultPool == { PagStartNode(Node(2, 0)) }

\* the stages, fed by collaborators that may also hand over such records
NextFault ==
    \/ NextStage
    \/ \E t \in Windows, from \in Workers : ProduceForward(t, ForwardWithoutDst, from)
    \/ \E t \in Windows, item \in BcFaultPool, from \in Workers : ProduceBc(t, item, from)
    \/ \E t \in Windows, edge \in SpFaultPool, from \in Workers : ProduceSp(t, edge, from)

SpecFault == InitStage /\ [][NextFault]_vars

\* a forward record without destination was produced for window t
ForwardFaultIn(t) == BagIn(ForwardWithoutDst, Contributed("SeedEdge", t, WindowKey).recs)

\* a scored edge without source was produced for window t
SourceFaultIn(t) ==
    \E tk \in DOMAIN submitted["summary"] : tk[1] = t /\ tk[2].workers.src = NoNode.worker_id

\* C17: a record that is not an Edge in the summary or the single-path
\* summary classification, a scored edge without source or a buffered forward
\* edge without destination in the path count aborts the run: no total is
\* emitted for a window that got such a record, and no score is kept under a
\* missing source.
C17_FatalConditionsAbort ==
    /\ \A e \in BagToSet(emitted["count"]) :
           ~ForwardFaultIn(e.time) /\ ~SourceFaultIn(e.time)
    /\ \A p \in Workers : \A t \in DOMAIN bc_map[p] : NoNode \notin DOMAIN bc_map[p][t]
    /\ \A o \in Aggregations : \A tk \in DOMAIN submitted[o] :
           tk[2].activity # PagStartNode(NoNode).edge_type.code

\* ----------------------------------- two runs of the seed sampler, one input
\* the most forward edges of the window
MaxForward == 3
Runs == 1..2

\* slice::choose: the element at the index the random source draws
choose_at(accum, i) == accum[i + 1]

\* both runs get the same forward edges for the window; fn_out holds, per
\* run, the indices not yet arrived, the buffer, the index thread_rng drew
\* and the seed given
InitReplay ==
    /\ FnInit
    /\ fn_in \in [forward : SeqsUpTo(ForwardPool, MaxForward)]
    /\ fn_out = [r \in Runs |-> [left |-> 1..Len(fn_in.forward), accum |-> <<>>,
                                 drawn |-> <<>>, seed |-> <<>>]]

\* SeedEdge, input.for_each in run r: the exchange delivers the records of
\* the partitions in any order
ReplayReceive(r, i) ==
    /\ pc = "fn"
    /\ i \in fn_out[r].left
    /\ fn_out' = [fn_out EXCEPT ![r].left = @ \ {i},
                                ![r].accum = Append(@, fn_in.forward[i])]
    /\ fnFrame

\* SeedEdge, notificator.for_each in run r: thread_rng() is seeded by the
\* operating system in every run, so any index may be drawn
ReplayNotify(r, i) ==
    /\ pc = "fn"
    /\ fn_out[r].left = {}
    /\ fn_out[r].drawn = <<>>
    /\ i \in 0..(Len(fn_out[r].accum) - 1)
    /\ fn_out' = [fn_out EXCEPT ![r].drawn = <<i>>,
                                ![r].seed = <<choose_at(fn_out[r].accum, i)>>]
    /\ fnFrame

NextReplay ==
    \/ \E r \in Runs, i \in 1..MaxForward : ReplayReceive(r, i)
    \/ \E r \in Runs, i \in 0..(MaxForward - 1) : ReplayNotify(r, i)

SpecReplay == InitReplay /\ [][NextReplay]_vars

\* C18: two runs over the same input and configuration in which the random
\* source yields the same values emit the same seed for the window, whatever
\* the order in which the records arrive and the steps interleave.
C18_SameSeedInBothRuns ==
    (pc = "fn" /\ DOMAIN fn_out = Runs /\ fn_out[1].seed # <<>> /\ fn_out[2].seed # <<>>
         /\ fn_out[1].drawn = fn_out[2].drawn)
        => fn_out[1].seed = fn_out[2].seed

\* ----------------------------------- the stages behind the feeder's backpressure
\* now_at is input.time(), old_epoch the window whose records are being sent;
\* the lag tolerances are those for which the first wait does not underflow
InitLag ==
    /\ input_records = <<>>
    /\ window_size_ns = MaxWindowSize
    /\ epochs \in {lag \in 0..MaxLag : lag <= 1}
    /\ probes = probe_wrappers(FALSE, FALSE)
    /\ pc = "stages"
    /\ idx = 1
    /\ first = FALSE
    /\ old_epoch = 1
    /\ node_count = 0
    /\ advanced = FALSE
    /\ now_at = 1
    /\ sent = <<>>
    /\ current = [b \in Probes |-> new_current]
    /\ printed = [b \in Probes |-> <<>>]
    /\ pf = [b \in Probes |-> 0]
    /\ proc = [b \in Probes |-> 0]
    /\ out_input = <<>>
    /\ out_count = <<>>
    /\ calls = 0
    /\ \E n \in 1..MaxWorkers : StagesIdle(n)
    /\ AuxIdle

\* the frontier the last tracker of the list reads: probe_sp_summary
LastProbeFrontier == OutputFrontier("sp_summary")

\* feed_input, a record of the next window: input.advance_to(epoch)
LagAdvance ==
    /\ pc = "stages"
    /\ now_at = old_epoch
    /\ now_at <= MaxWin
    /\ now_at' = now_at + 1
    /\ UNCHANGED <<pc, old_epoch, up, chan, pend, accums, bc_map, forward_map, aggregates,
                   emitted, submitted, produced>>
    /\ sendFrame

\* feed_input: the backpressure loop exits and the records of the window
\* are sent
LagRelease ==
    /\ pc = "stages"
    /\ old_epoch < now_at
    /\ ~BackpressureLags(LastProbeFrontier, now_at, epochs)
    /\ old_epoch' = now_at
    /\ UNCHANGED <<pc, now_at, up, chan, pend, accums, bc_map, forward_map, aggregates,
                   emitted, submitted, produced>>
    /\ sendFrame

NextLag == LagAdvance \/ LagRelease \/ StageSteps

SpecLag == InitLag /\ [][NextLag]_vars

\* the windows for which stage o holds state on some partition
OpenWindows(o) ==
    UNION {IF o = "SeedEdge" THEN DOMAIN accums[p]
           ELSE IF o = "count" THEN DOMAIN bc_map[p] \cup DOMAIN forward_map[p]
           ELSE DOMAIN aggregates[o][p] : p \in Workers}

\* C20: in every reachable state the seed sampler, the path count, the
\* summary and the single-path summary each hold per-window state for at most
\* lag_tolerance + 1 distinct windows.
C20_BoundedOpenState ==
    \A o \in Operators : Cardinality(OpenWindows(o)) <= epochs + 1

\* the stages the last tracker's branch runs through stay within the bound
UpstreamOfLastProbeBounded ==
    \A o \in {"SeedEdge", "sp_summary"} : Cardinality(OpenWindows(o)) <= epochs + 1

\* ------------------------------------------------------ the path count's total
\* the elements of a bag as a sequence, each as often as the bag holds it
RECURSIVE BagToSeq(_)
BagToSeq(B) ==
    IF BagToSet(B) = {} THEN <<>>
    ELSE LET x == CHOOSE y \in BagToSet(B) : TRUE
         IN  <<x>> \o BagToSeq(B (-) SetToBag({x}))

RECURSIVE SeqSum(_)
SeqSum(s) == IF s = <<>> THEN 0 ELSE Head(s) + SeqSum(Tail(s))

\* the scores produced for window t under source node n, added up
ScoreUnder(t, n) ==
    LET items == BagToSeq(Contributed("count", t, WindowKey).recs)
    IN  SeqSum([i \in 1..Len(items) |->
                   IF items[i].edge.src = n THEN as_u64(items[i].bc) ELSE 0])

\* the total the claim gives window t: over its forward edges, with
\* multiplicity, the score accumulated under the edge's destination
ExpectedPaths(t) ==
    LET fwd == BagToSeq(Contributed("SeedEdge", t, WindowKey).recs)
    IN  SeqSum([i \in 1..Len(fwd) |-> ScoreUnder(t, fwd[i].dst)])

C22_NeverAborts ==
    (input_records # <<>> /\ IsSorted(input_records)) => pc # "aborted"

\* ------------------------------------------------- the feeder under fair steps
\* an iteration whose computation.step() processes a record on some branch
ProgressIter ==
    /\ BackpressureIter \/ FinalIter
    /\ \E b \in Probes : proc'[b] > proc[b]

\* the feeder keeps running, and a step does not forever leave outstanding
\* work untouched
SpecLive == Init /\ [][Next]_vars /\ WF_vars(Next) /\ WF_vars(ProgressIter)

\* C23: under fair stepping every drain, every backpressure loop and the
\* final loop terminate: every input record is eventually injected and
\* feed_input returns.
C23_FeederReturns == <>(pc = "done" /\ Len(sent) = Len(input_records))

\* under fair stepping every loop terminates: the feeder returns with every
\* record injected, or it has aborted
LoopsTerminate ==
    <>((pc = "done" /\ Len(sent) = Len(input_records)) \/ pc = "aborted")

\* ------------------------------------------- the summary's contributions
\* the scored edges produced for window t, as a sequence
ScoredEdges(t) == BagToSeq(Contributed("count", t, WindowKey).recs)

\* the ActivityWorkers the claim gives an edge
ExpectedWorkers(edge) ==
    IF edge.edge_type.is_worker_local
    THEN [kind |-> "Local", src |-> edge.src.worker_id, dst |-> edge.src.worker_id]
    ELSE [kind |-> "Remote", src |-> edge.src.worker_id, dst |-> edge.dst.worker_id]

\* the pool's edges with every weight and score up to MaxScore + 1, some with
\* a product the f64 of the model does not represent
ScoredPool ==
    { [edge |-> [e EXCEPT !.weight = w], bc |-> sc] :
          e \in EdgePool, w \in 1..(MaxScore + 1), sc \in 1..(MaxScore + 1) }

\* C24: every (edge, score) of the centrality stage contributes one partial
\* value {score, score * weight, weight, count = 1} (the product as the score
\* type represents it, exact up to MaxExact), under a key whose
\* ActivityWorkers is Local(source worker) iff the edge type is worker-local
\* and Remote(source worker, destination worker) otherwise; so the count
\* emitted for a (window, key) is the number of scored edges of that window
\* and key, and the emitted weight is the sum of their weights.
C24_ContributionMapping ==
    /\ \A item \in ScoredPool : \A t \in Windows :
           LET kv == MapToSummary(t, window_size_ns, item.edge, item.bc)
           IN  /\ kv.val.bc = item.bc
               /\ kv.val.weight = item.edge.weight
               /\ kv.val.count = 1
               /\ item.bc * item.edge.weight <= MaxExact =>
                      kv.val.weighted_bc = item.bc * item.edge.weight
               /\ kv.key.workers = ExpectedWorkers(item.edge)
               /\ kv.key.workers.kind = "Local" <=> item.edge.edge_type.is_worker_local
    /\ \A e \in BagToSet(emitted["summary"]) :
           LET items == ScoredEdges(e.time)
               mine == {i \in 1..Len(items) :
                           MapToSummary(e.time, window_size_ns,
                                        items[i].edge, items[i].bc).key = e.key}
           IN  /\ mine # {}
               /\ \A i \in mine : e.key.workers = ExpectedWorkers(items[i].edge)
               /\ e.val.count = Cardinality(mine)
               /\ e.val.weight =
                      SeqSum([i \in 1..Len(items) |->
                                 IF i \in mine THEN items[i].edge.weight ELSE 0])

\* two scored worker-local edges of one window and key, of weights 1 and 2,
\* were emitted as one summary
C24_Witness ==
    \E e \in BagToSet(emitted["summary"]) :
        /\ e.key.workers.kind = "Local"
        /\ e.val.count = 2
        /\ e.val.weight = 3

OperatorIds == {0, 1, 2, 254, 255, 256, 257, 511, 65535}

\* two edges of one window that differ in the operator id only; NoOperator
\* is an edge without operator id
InitOperator ==
    /\ FnInit
    /\ fn_in \in [a : OperatorIds \cup {NoOperator}, b : OperatorIds \cup {NoOperator},
                  local : BOOLEAN]
    /\ fn_out = <<>>

\* the two closures map both edges; the operator components of the keys
KeyOperators ==
    /\ pc = "fn"
    /\ fn_out = <<>>
    /\ LET ea == PagEdge(Node(2, 0), Node(3, 1), 1, fn_in.local, fn_in.a, 1)
           eb == PagEdge(Node(2, 0), Node(3, 1), 1, fn_in.local, fn_in.b, 1)
       IN  fn_out' = [summary    |-> <<MapToSummary(1, MaxWindowSize, ea, 1).key.operator,
                                       MapToSummary(1, MaxWindowSize, eb, 1).key.operator>>,
                      sp_summary |-> <<e_weight(ea).key.operator,
                                       e_weight(eb).key.operator>>]
    /\ fnFrame

NextOperator == KeyOperators

SpecOperator == InitOperator /\ [][NextOperator]_vars

\* C26: in the summary and the single-path summary, two edges of one window
\* with different operator ids, or one with an operator id and one without,
\* never get the same operator component in their keys.
C26_OperatorInjective ==
    (pc = "fn" /\ fn_out # <<>> /\ fn_in.a # fn_in.b) =>
        /\ fn_out.summary[1] # fn_out.summary[2]
        /\ fn_out.sp_summary[1] # fn_out.sp_summary[2]

====
